---- MODULE Spec2Model ----
(***************************************************************************)
(* Model of the MoDEL-CNS database loader's deletion command               *)
(* (src/commands/delete/index.js) and of the identifier coercions of the   *)
(* command line entry point (index.js).                                    *)
(*                                                                         *)
(* deleteFunction is an async function: it runs atomically between two     *)
(* awaits.  Each action below is either the start of the function up to    *)
(* its first await, or the completion (return or rejection) of the awaited *)
(* call together with everything the function does up to its next await or *)
(* its end.  pc names the line of the await the function is suspended at.  *)
(***************************************************************************)
EXTENDS Integers, Sequences, FiniteSets, TLC

VARIABLES
    id,             \* deleteFunction argument: the id to delete
    confirm,        \* deleteFunction argument: skip the confirmation when TRUE
    pc,             \* "start", the line of the pending await, or "done"
    target,         \* result of database.findId (line 14)
    documentName,   \* result of database.nameCollectionDocument (line 18)
    confirmation,   \* result of userConfirm (line 21)
    calls,          \* calls made so far on the database handler and on userConfirm
    outcome,        \* how the run ended
    raised,         \* the error the run was rejected with
    stored,         \* the document findId found, as long as it is in the database
    command,        \* the command given on the command line
    raw,            \* its id or accession argument, as typed
    phase,          \* "argv" before yargs coerced the argument, "coerced" or "failed" after
    coerced,        \* the value the coerce function returned
    attempts,       \* the coercions the coerce function called, in order
    failure         \* the error the coerce function threw

deleteVars ==
    <<id, confirm, pc, target, documentName, confirmation, calls, outcome, raised, stored>>
coerceVars == <<command, raw, phase, coerced, attempts, failure>>
vars == <<deleteVars, coerceVars>>

----------------------------------------------------------------------------
(* Bounds of the model *)

\* MD indices of the documents range over 1..MaxMd
MaxMd == 2

\* An argument is typed with up to MaxPad blanks before and after it
MaxPad == 2

----------------------------------------------------------------------------
(* Values *)

\* JS null / undefined results
Null == [collection |-> "null"]
Undefined == "undefined"
NoResponse == "<none>"
NoError == [type |-> "none"]

Ids == {"5d08c0d8174bf85a17e00861", "5d08c0d8174bf85a17e00862"}

\* database.analyses, database.files and the other collections of the handler
Analyses == "analyses"
Files == "files"
Collections == {Analyses, Files, "projects", "topologies"}

Projects == {"P1", "P2"}
AnalysisNames == {"md.rmsd", "md.rgyr"}
Filenames == {"traj.xtc", "md.imaged.rot.dry.pdb"}
MdIndices == 1..MaxMd

\* Documents of the analyses collection
AnalysisDocuments == [name : AnalysisNames, md : MdIndices, project : Projects]

\* Documents of the files collection (GridFS): filename is a field of the
\* document, md and project are fields of its metadata.  metadata.filename is
\* not a GridFS field: it is Undefined unless the stored metadata carries one.
FileDocuments ==
    [filename : Filenames \cup {Undefined},
     metadata : [filename : Filenames \cup {Undefined}, md : MdIndices, project : Projects]]

\* Documents of the other collections
OtherDocuments == [accession : {"MCNS00001", Undefined}]

DocumentsOf(c) ==
    IF c = Analyses THEN AnalysisDocuments
    ELSE IF c = Files THEN FileDocuments
    ELSE OtherDocuments

\* What database.findId may resolve to
Targets == UNION {[collection : {c}, document : DocumentsOf(c)] : c \in Collections}
FindIdResults == Targets \cup {Null}

\* What userConfirm may resolve to
Responses == {"y", "Y", "n", "N", "", "yes", "Yes", " y", "y ", "*"}

\* database.nameCollectionDocument: the label of a collection's documents
NameCollectionDocument(c) ==
    CASE c = Analyses -> "analysis"
      [] c = Files -> "file"
      [] c = "projects" -> "project"
      [] OTHER -> "topology"

\* database.deleteAnalysis and deleteFile, once resolved: the document is gone
AfterDelete(doc) == Null

\* A call and its completion
Call(fn, args) == [fn |-> fn, args |-> args, status |-> "pending"]
Completed(cs, st) == [cs EXCEPT ![Len(cs)].status = st]
Rejection(fn) == [type |-> "rejection", of |-> fn]
UnsupportedError(name) ==
    [type |-> "Error", message |-> <<"Deletion of ", name, " is not yet supported">>]

----------------------------------------------------------------------------
(* deleteFunction *)

\* No command line is being parsed
CoerceIdle ==
    /\ command = "none"
    /\ raw = [type |-> "null"]
    /\ phase = "idle"
    /\ coerced = [type |-> "undefined"]
    /\ attempts = <<>>
    /\ failure = NoError

Init ==
    /\ CoerceIdle
    /\ id \in Ids
    /\ confirm \in BOOLEAN
    /\ pc = "start"
    /\ target = Null
    /\ documentName = Undefined
    /\ confirmation = NoResponse
    /\ calls = <<>>
    /\ outcome = "none"
    /\ raised = NoError
    /\ stored = Null

\* return at lines 16, 22 or the resolution of the promise returned at 32, 41
Return(o) ==
    /\ pc' = "done"
    /\ outcome' = o
    /\ raised' = NoError

\* throw at line 43, or an awaited promise that rejects
Throw(o, e) ==
    /\ pc' = "done"
    /\ outcome' = o
    /\ raised' = e

\* Faulty variant of line 16: a null target is not noticed
NotFoundNever(t) == FALSE

\* line 16: !target
NotFound(t) == t = Null

\* Faulty variant of line 20: the confirm argument is ignored
AsksAlways(c) == TRUE

\* line 20: !confirm
AsksConfirmation(c) == ~c

\* Faulty variants of line 22: nothing declines; only n declines; only the
\* lower case y confirms
DeclinedNever(r) == FALSE
DeclinedOnlyN(r) == r = "n" \/ r = "N"
DeclinedCaseSensitive(r) == r # "y"

\* line 22: confirmation !== 'y' && confirmation !== 'Y'
Declined(r) == r # "y" /\ r # "Y"

\* line 28: database.syncProject(target.document.project)
SyncProjectOfAnalysis(t) == Call("syncProject", <<t.document.project>>)

\* Faulty variant of lines 30-32: the project is passed where the name belongs
DeleteAnalysisCallOfProject(t) ==
    Call("deleteAnalysis", <<t.document.project, t.document.md>>)

\* lines 30-32: database.deleteAnalysis(name, mdIndex)
DeleteAnalysisCall(t) == Call("deleteAnalysis", <<t.document.name, t.document.md>>)

\* line 37: database.syncProject(target.document.metadata.project)
SyncProjectOfFile(t) == Call("syncProject", <<t.document.metadata.project>>)

\* Faulty variant of lines 39-41: the analysis delete is called for a file
DeleteFileCallAsAnalysis(t) ==
    Call("deleteAnalysis", <<t.document.filename, t.document.metadata.md>>)

\* Variant of lines 39-41 reading the filename from the metadata
DeleteFileCallFromMetadata(t) ==
    Call("deleteFile", <<t.document.metadata.filename, t.document.metadata.md>>)

\* lines 39-41: database.deleteFile(filename, mdIndex)
DeleteFileCall(t) ==
    Call("deleteFile", <<t.document.filename, t.document.metadata.md>>)

\* Faulty variant of line 43: an unsupported collection is skipped silently
SkipUnsupported(name) == Return("Deleted")

\* line 43: throw new Error(`Deletion of ${documentName} is not yet supported`)
ThrowUnsupported(name) == Throw("Unsupported", UnsupportedError(name))

\* Faulty variant of lines 24-43: the typed delete is called without
\* synchronizing the project first
DispatchWithoutSync(t, name, cs) ==
    IF t.collection = Analyses
    THEN /\ calls' = Append(cs, DeleteAnalysisCall(t))
         /\ pc' = "L32"
         /\ UNCHANGED <<outcome, raised>>
    ELSE IF t.collection = Files
    THEN /\ calls' = Append(cs, DeleteFileCall(t))
         /\ pc' = "L41"
         /\ UNCHANGED <<outcome, raised>>
    ELSE /\ calls' = cs
         /\ ThrowUnsupported(name)

\* lines 24-43: the deleting protocol of the target's collection, up to the
\* first await.  cs are the calls made before.
Dispatch(t, name, cs) ==
    IF t.collection = Analyses
    THEN /\ calls' = Append(cs, SyncProjectOfAnalysis(t))
         /\ pc' = "L28"
         /\ UNCHANGED <<outcome, raised>>
    ELSE IF t.collection = Files
    THEN /\ calls' = Append(cs, SyncProjectOfFile(t))
         /\ pc' = "L37"
         /\ UNCHANGED <<outcome, raised>>
    ELSE /\ calls' = cs
         /\ ThrowUnsupported(name)

\* Faulty variant of lines 12-14: the id is looked up twice
StartLookingUpTwice ==
    /\ pc = "start"
    /\ calls' = <<[fn |-> "findId", args |-> <<id>>, status |-> "returned"],
                  Call("findId", <<id>>)>>
    /\ pc' = "L14"
    /\ UNCHANGED <<id, confirm, target, documentName, confirmation, outcome, raised>>
    /\ UNCHANGED stored
    /\ UNCHANGED coerceVars

\* lines 12-14: log and call database.findId
Start ==
    /\ pc = "start"
    /\ calls' = Append(calls, Call("findId", <<id>>))
    /\ pc' = "L14"
    /\ UNCHANGED <<id, confirm, target, documentName, confirmation, outcome, raised>>
    /\ UNCHANGED stored
    /\ UNCHANGED coerceVars

\* Faulty variant of lines 14-23: an unsupported collection is refused before
\* the confirmation is asked for
FindIdReturnsRefusingFirst ==
    /\ pc = "L14"
    /\ \E t \in FindIdResults :
        /\ target' = t
        /\ stored' = t
        /\ IF NotFound(t)
           THEN /\ calls' = Completed(calls, "returned")
                /\ Return("NotFound")
                /\ UNCHANGED documentName
           ELSE LET named == Append(Completed(calls, "returned"),
                                    [fn |-> "nameCollectionDocument",
                                     args |-> <<t.collection>>,
                                     status |-> "returned"])
                    name == NameCollectionDocument(t.collection)
                IN  /\ documentName' = name
                    /\ IF AsksConfirmation(confirm) /\ t.collection \in {Analyses, Files}
                       THEN /\ calls' = Append(named, Call("userConfirm", <<name, id>>))
                            /\ pc' = "L21"
                            /\ UNCHANGED <<outcome, raised>>
                       ELSE Dispatch(t, name, named)
    /\ UNCHANGED <<id, confirm, confirmation>>
    /\ UNCHANGED coerceVars

\* lines 14-23 (and 24-43 when confirm is set): findId resolves to t
FindIdReturns ==
    /\ pc = "L14"
    /\ \E t \in FindIdResults :
        /\ target' = t
        /\ stored' = t
        /\ IF NotFound(t)
           THEN /\ calls' = Completed(calls, "returned")
                /\ Return("NotFound")
                /\ UNCHANGED documentName
           ELSE LET named == Append(Completed(calls, "returned"),
                                    [fn |-> "nameCollectionDocument",
                                     args |-> <<t.collection>>,
                                     status |-> "returned"])
                    name == NameCollectionDocument(t.collection)
                IN  /\ documentName' = name
                    /\ IF AsksConfirmation(confirm)
                       THEN /\ calls' = Append(named, Call("userConfirm", <<name, id>>))
                            /\ pc' = "L21"
                            /\ UNCHANGED <<outcome, raised>>
                       ELSE Dispatch(t, name, named)
    /\ UNCHANGED <<id, confirm, confirmation>>
    /\ UNCHANGED coerceVars

\* Faulty variant of lines 21-43: a response that is neither y nor n is asked
\* for once more
UserConfirmReturnsReasking ==
    /\ pc = "L21"
    /\ \E r \in Responses :
        /\ confirmation' = r
        /\ IF r \notin {"y", "Y", "n", "N"} /\ Len(calls) < 4
           THEN /\ calls' = Append(Completed(calls, "returned"),
                                   Call("userConfirm", <<documentName, id>>))
                /\ UNCHANGED <<pc, outcome, raised>>
           ELSE IF Declined(r)
           THEN /\ calls' = Completed(calls, "returned")
                /\ Return("Aborted")
           ELSE Dispatch(target, documentName, Completed(calls, "returned"))
    /\ UNCHANGED <<id, confirm, target, documentName>>
    /\ UNCHANGED stored
    /\ UNCHANGED coerceVars

\* lines 21-43: userConfirm resolves to r
UserConfirmReturns ==
    /\ pc = "L21"
    /\ \E r \in Responses :
        /\ confirmation' = r
        /\ IF Declined(r)
           THEN /\ calls' = Completed(calls, "returned")
                /\ Return("Aborted")
           ELSE Dispatch(target, documentName, Completed(calls, "returned"))
    /\ UNCHANGED <<id, confirm, target, documentName>>
    /\ UNCHANGED stored
    /\ UNCHANGED coerceVars

\* lines 28-32 and 37-41: syncProject resolves, the typed delete is called
SyncProjectReturns ==
    /\ pc \in {"L28", "L37"}
    /\ IF pc = "L28"
       THEN /\ calls' = Append(Completed(calls, "returned"), DeleteAnalysisCall(target))
            /\ pc' = "L32"
       ELSE /\ calls' = Append(Completed(calls, "returned"), DeleteFileCall(target))
            /\ pc' = "L41"
    /\ UNCHANGED <<id, confirm, target, documentName, confirmation, outcome, raised>>
    /\ UNCHANGED stored
    /\ UNCHANGED coerceVars

\* lines 32 and 41: the typed delete resolves
DeleteReturns ==
    /\ pc \in {"L32", "L41"}
    /\ calls' = Completed(calls, "returned")
    /\ Return("Deleted")
    /\ stored' = AfterDelete(stored)
    /\ UNCHANGED <<id, confirm, target, documentName, confirmation>>
    /\ UNCHANGED coerceVars

\* Faulty variant of the rejected await: the call that failed is made once more
AwaitRejectsRetrying ==
    /\ pc \in {"L14", "L21", "L28", "L32", "L37", "L41"}
    /\ LET failed == calls[Len(calls)]
           before == {i \in DOMAIN calls : calls[i].fn = failed.fn}
       IN  IF Cardinality(before) < 2
           THEN /\ calls' = Append(Completed(calls, "threw"), Call(failed.fn, failed.args))
                /\ UNCHANGED <<pc, outcome, raised>>
           ELSE /\ calls' = Completed(calls, "threw")
                /\ Throw("Failed", Rejection(failed.fn))
    /\ UNCHANGED <<id, confirm, target, documentName, confirmation>>
    /\ UNCHANGED stored
    /\ UNCHANGED coerceVars

\* lines 14, 21, 28, 32, 37, 41: the awaited promise rejects (userConfirm
\* included: the module binds no userConfirm, the call fails where none is
\* defined globally) and the rejection leaves deleteFunction.  A delete that
\* rejected leaves the document where it was.
AwaitRejects ==
    /\ pc \in {"L14", "L21", "L28", "L32", "L37", "L41"}
    /\ calls' = Completed(calls, "threw")
    /\ Throw("Failed", Rejection(calls[Len(calls)].fn))
    /\ UNCHANGED <<id, confirm, target, documentName, confirmation>>
    /\ UNCHANGED stored
    /\ UNCHANGED coerceVars

Next ==
    \/ Start
    \/ FindIdReturns
    \/ UserConfirmReturns
    \/ SyncProjectReturns
    \/ DeleteReturns
    \/ AwaitRejects

Spec == Init /\ [][Next]_vars

\* The function runs on when the call it awaits settles, and every call
\* settles: it resolves or it rejects
SpecLive == Init /\ [][Next]_vars /\ WF_vars(Next)

TypeOK ==
    /\ id \in Ids
    /\ confirm \in BOOLEAN
    /\ pc \in {"start", "L14", "L21", "L28", "L32", "L37", "L41", "done"}
    /\ target \in FindIdResults
    /\ confirmation \in Responses \cup {NoResponse}
    /\ outcome \in {"none", "NotFound", "Aborted", "Deleted", "Unsupported", "Failed"}

----------------------------------------------------------------------------
(* index.js: the coercions of the id and accession arguments *)

\* Strings are sequences of characters
JsNull == [type |-> "null"]
JsUndefined == [type |-> "undefined"]
Str(chars) == [type |-> "string", chars |-> chars]

LowerLetters == <<"a", "b", "c", "d", "e", "f", "g", "h", "i", "j", "k", "l", "m", "n", "o", "p", "q", "r", "s", "t", "u", "v", "w", "x", "y", "z">>
UpperLetters == <<"A", "B", "C", "D", "E", "F", "G", "H", "I", "J", "K", "L", "M", "N", "O", "P", "Q", "R", "S", "T", "U", "V", "W", "X", "Y", "Z">>
DecimalDigits == {"0", "1", "2", "3", "4", "5", "6", "7", "8", "9"}
HexDigits == DecimalDigits \cup {"a", "b", "c", "d", "e", "f", "A", "B", "C", "D", "E", "F"}
WhiteSpace == {" ", "\t", "\n"}

IndexIn(c, letters) == CHOOSE i \in DOMAIN letters : letters[i] = c
IsIn(c, letters) == \E i \in DOMAIN letters : letters[i] = c

\* String.prototype.toUpperCase and toLowerCase
ToUpperCase(chars) ==
    [i \in DOMAIN chars |->
        IF IsIn(chars[i], LowerLetters)
        THEN UpperLetters[IndexIn(chars[i], LowerLetters)]
        ELSE chars[i]]
ToLowerCase(chars) ==
    [i \in DOMAIN chars |->
        IF IsIn(chars[i], UpperLetters)
        THEN LowerLetters[IndexIn(chars[i], UpperLetters)]
        ELSE chars[i]]

\* String.prototype.trim
RECURSIVE TrimStart(_)
TrimStart(chars) ==
    IF chars # <<>> /\ Head(chars) \in WhiteSpace THEN TrimStart(Tail(chars)) ELSE chars
RECURSIVE TrimEnd(_)
TrimEnd(chars) ==
    IF chars # <<>> /\ chars[Len(chars)] \in WhiteSpace
    THEN TrimEnd(SubSeq(chars, 1, Len(chars) - 1))
    ELSE chars
Trim(chars) == TrimEnd(TrimStart(chars))

\* The arguments typed on the command line: each of these, with up to MaxPad
\* blanks before and after
ArgumentBodies == {
    <<"5", "d", "0", "8", "c", "0", "d", "8", "1", "7", "4", "b", "f", "8", "5", "a", "1", "7", "e", "0", "0", "8", "6", "1">>,
    <<"5", "D", "0", "8", "C", "0", "D", "8", "1", "7", "4", "B", "F", "8", "5", "A", "1", "7", "E", "0", "0", "8", "6", "1">>,
    <<"5", "d", "0", "8", "c", "0", "d", "8", "1", "7", "4", "b", "f", "8", "5", "a", "1", "7", "e", "0", "0", "8", "6", "g">>,
    <<"5", "d", "0", "8", "c", "0", "d", "8", "1", "7", "4", "b", "f", "8", "5", "a", "1", "7", "e", "0", "0", "8", "6">>,
    <<"a", "b", "c", "d", "e", "f", "g", "h", "i", "j", "k", "l">>,
    <<"M", "C", "N", "S", "0", "0", "0", "0", "1">>,
    <<"m", "c", "n", "s", "0", "0", "0", "0", "1">>,
    <<"M", "c", "n", "s", "0", "0", "0", "4", "2">>,
    <<"M", "C", "N", "S", "0", "0", "0", "0", "1", "\n">>,
    <<"M", "C", "N", "S", "0", "0", "0", "1">>,
    <<"M", "C", "N", "S", "0", "0", "0", "0", "0", "1">>,
    <<"X", "C", "N", "S", "0", "0", "0", "0", "1">>,
    <<"M", "C", "N", "S", "0", "0", "0", "0", "a">>,
    <<"M", "C", "N", "S", " ", "0", "0", "0", "0", "1">>,
    <<"0", "0", "0", "0", "1">>,
    <<>>}
Blanks(n) == [i \in 1..n |-> " "]
Arguments ==
    {Str(Blanks(l) \o body \o Blanks(r)) : l \in 0..MaxPad, r \in 0..MaxPad, body \in ArgumentBodies}

\* What a coerce function did: the value it returned or the error it threw,
\* and the coercions it called
Returned(v, tried) == [ok |-> TRUE, value |-> v, error |-> NoError, tried |-> tried]
Threw(e, tried) == [ok |-> FALSE, value |-> JsUndefined, error |-> e, tried |-> tried]

\* mongodb's ObjectId: a string of 12 bytes or of 24 hex characters is
\* accepted, null makes a new id, any other string is a TypeError
ObjectIdBytes == 12
ObjectIdHexLength == 24
ObjectIdAccepts(v) ==
    \/ v = JsNull
    \/ /\ v.type = "string"
       /\ \/ Len(v.chars) = ObjectIdBytes
          \/ /\ Len(v.chars) = ObjectIdHexLength
             /\ \A i \in DOMAIN v.chars : v.chars[i] \in HexDigits
ObjectId(v) ==
    IF v = JsNull THEN [type |-> "ObjectId", from |-> "generated", chars |-> <<>>]
    ELSE IF Len(v.chars) = ObjectIdHexLength
    THEN [type |-> "ObjectId", from |-> "hex", chars |-> ToLowerCase(v.chars)]
    ELSE [type |-> "ObjectId", from |-> "bytes", chars |-> v.chars]

\* line 84: idCoerce
idCoerce(v) ==
    IF ObjectIdAccepts(v)
    THEN Returned(ObjectId(v), <<"idCoerce">>)
    ELSE Threw([type |-> "TypeError", message |-> "ObjectId"], <<"idCoerce">>)

\* lines 88-90: accessionFormat, ^ACCESSION_PREFIX\d{5}$
AccessionPrefix == <<"M", "C", "N", "S">>
AccessionDigits == 5
accessionFormatTest(chars) ==
    /\ Len(chars) = Len(AccessionPrefix) + AccessionDigits
    /\ SubSeq(chars, 1, Len(AccessionPrefix)) = AccessionPrefix
    /\ \A i \in (Len(AccessionPrefix) + 1)..Len(chars) : chars[i] \in DecimalDigits

\* lines 93-99: accessionCoerce
accessionCoerce(v) ==
    LET output == ToUpperCase(Trim(v.chars))
    IN  IF ~accessionFormatTest(output)
        THEN Threw([type |-> "Error", message |-> "Not a valid accession"],
                   <<"accessionCoerce">>)
        ELSE Returned(Str(output), <<"accessionCoerce">>)

\* lines 106, 116: !idOrAccession, if (output)
Falsy(v) == v \in {JsNull, JsUndefined, Str(<<>>)}

InvalidIdOrAccession == [type |-> "Error", message |-> "Invalid ID or accession"]

\* Faulty variant of lines 103-118: the accession is tried first
idOrAccessionCoerceAccessionFirst(v) ==
    IF Falsy(v) THEN Returned(JsNull, <<>>)
    ELSE LET asAccession == accessionCoerce(v)
             asId == idCoerce(v)
             output == IF asAccession.ok THEN asAccession.value
                       ELSE IF asId.ok THEN asId.value
                       ELSE JsUndefined
             tried == IF asAccession.ok THEN asAccession.tried
                      ELSE asAccession.tried \o asId.tried
         IN  IF ~Falsy(output)
             THEN Returned(output, tried)
             ELSE Threw(InvalidIdOrAccession, tried)

\* lines 103-118: idOrAccessionCoerce
idOrAccessionCoerce(v) ==
    IF Falsy(v) THEN Returned(JsNull, <<>>)
    ELSE LET asId == idCoerce(v)
             asAccession == accessionCoerce(v)
             output == IF asId.ok THEN asId.value
                       ELSE IF asAccession.ok THEN asAccession.value
                       ELSE JsUndefined
             tried == IF asId.ok THEN asId.tried ELSE asId.tried \o asAccession.tried
         IN  IF ~Falsy(output)
             THEN Returned(output, tried)
             ELSE Threw(InvalidIdOrAccession, tried)

\* The commands with an id or accession argument and the arguments they take:
\* --append (line 179) defaults to null, the positionals are strings
Commands == {"load --append", "publish", "unpublish", "cleanup"}
ArgumentsOf(c) == IF c = "load --append" THEN Arguments \cup {JsNull} ELSE Arguments

InitCoerce ==
    /\ command \in Commands
    /\ raw \in ArgumentsOf(command)
    /\ phase = "argv"
    /\ coerced = JsUndefined
    /\ attempts = <<>>
    /\ failure = NoError
    /\ id = "none"
    /\ confirm = FALSE
    /\ pc = "start"
    /\ target = Null
    /\ documentName = Undefined
    /\ confirmation = NoResponse
    /\ calls = <<>>
    /\ outcome = "none"
    /\ raised = NoError
    /\ stored = Null

\* yargs applies the option's coerce function to the argument
Coerce(result) ==
    /\ phase = "argv"
    /\ phase' = IF result.ok THEN "coerced" ELSE "failed"
    /\ coerced' = result.value
    /\ failure' = result.error
    /\ attempts' = result.tried
    /\ UNCHANGED <<command, raw>>
    /\ UNCHANGED deleteVars

\* line 182
CoerceAppend == command = "load --append" /\ Coerce(idOrAccessionCoerce(raw))
\* line 225
CoercePublish == command = "publish" /\ Coerce(idCoerce(raw))
\* line 239
CoerceUnpublish == command = "unpublish" /\ Coerce(idOrAccessionCoerce(raw))
\* Variant of line 276: cleanup takes an accession too
CoerceCleanupWithAccession == command = "cleanup" /\ Coerce(idOrAccessionCoerce(raw))

\* line 276
CoerceCleanup == command = "cleanup" /\ Coerce(idCoerce(raw))

NextCoerce ==
    \/ CoerceAppend
    \/ CoercePublish
    \/ CoerceUnpublish
    \/ CoerceCleanup

SpecCoerce == InitCoerce /\ [][NextCoerce]_vars

----------------------------------------------------------------------------
(* The cleanup command: its id is coerced, then its handler deletes *)

InitCleanup ==
    /\ command = "cleanup"
    /\ raw \in Arguments
    /\ phase = "argv"
    /\ coerced = JsUndefined
    /\ attempts = <<>>
    /\ failure = NoError
    /\ id = "none"
    /\ confirm \in BOOLEAN
    /\ pc = "idle"
    /\ target = Null
    /\ documentName = Undefined
    /\ confirmation = NoResponse
    /\ calls = <<>>
    /\ outcome = "none"
    /\ raised = NoError
    /\ stored = Null

\* line 279: the handler runs once the argument was coerced (a coerce function
\* that throws makes yargs fail the command instead); it hands the coerced id
\* and the database handler to the deletion
RunCleanup ==
    /\ phase = "coerced"
    /\ pc = "idle"
    /\ id' = coerced
    /\ pc' = "start"
    /\ UNCHANGED <<confirm, target, documentName, confirmation, calls, outcome, raised>>
    /\ UNCHANGED stored
    /\ UNCHANGED coerceVars

NextCleanup ==
    \/ CoerceCleanup
    \/ RunCleanup
    \/ Start
    \/ FindIdReturns
    \/ UserConfirmReturns
    \/ SyncProjectReturns
    \/ DeleteReturns
    \/ AwaitRejects

SpecCleanup == InitCleanup /\ [][NextCleanup]_vars

----------------------------------------------------------------------------
(* Properties of deleteFunction *)

IsDelete(c) == c.fn \in {"deleteAnalysis", "deleteFile"}
IsProtocol(c) == c.fn \in {"syncProject", "deleteAnalysis", "deleteFile"}
Affirmative == confirmation = "y" \/ confirmation = "Y"
Located == target \in Targets
Supported == target.collection \in {Analyses, Files}

\* The syncProject and delete calls made so far, in order, without their status
ProtocolCalls ==
    LET made == SelectSeq(calls, IsProtocol)
    IN  [i \in DOMAIN made |-> [fn |-> made[i].fn, args |-> made[i].args]]

IsPrefix(a, b) == Len(a) <= Len(b) /\ \A i \in DOMAIN a : a[i] = b[i]

\* C1: a typed delete call is issued only after findId returned a non-null
\* target and, unless confirm is set, only after userConfirm returned an
\* affirmative response.
C1_DeleteOnlyAfterLookupAndConfirmation ==
    \A i \in DOMAIN calls :
        IsDelete(calls[i]) =>
            /\ \E j \in 1..(i - 1) :
                    calls[j].fn = "findId" /\ calls[j].status = "returned"
            /\ target # Null
            /\ confirm \/
                 /\ Affirmative
                 /\ \E k \in 1..(i - 1) :
                        calls[k].fn = "userConfirm" /\ calls[k].status = "returned"

C1_Witness ==
    /\ ~confirm
    /\ Affirmative
    /\ \E i \in DOMAIN calls : IsDelete(calls[i])

\* C2: every typed delete call directly follows a syncProject call that
\* returned; once syncProject failed no delete call is issued; and a supported
\* target that got past the confirmation has syncProject called next.
C2_SyncCompletesBeforeDelete ==
    /\ \A i \in DOMAIN calls :
        IsDelete(calls[i]) =>
            /\ i > 1
            /\ calls[i - 1].fn = "syncProject"
            /\ calls[i - 1].status = "returned"
    /\ \A i \in DOMAIN calls :
        (calls[i].fn = "syncProject" /\ calls[i].status = "threw") =>
            /\ i = Len(calls)
            /\ outcome = "Failed"
    /\ (Located /\ Supported /\ (confirm \/ Affirmative)) =>
            \E i \in DOMAIN calls : calls[i].fn = "syncProject"

C2_Witness ==
    /\ \E i \in DOMAIN calls : IsDelete(calls[i])
    /\ outcome = "Deleted"

\* C3: for a target of the analyses collection the protocol calls are
\* syncProject(document.project) then deleteAnalysis(document.name,
\* document.md), with those arguments, and a run that deleted made both.
C3_AnalysisProtocol ==
    (Located /\ target.collection = Analyses) =>
        /\ IsPrefix(ProtocolCalls,
                    << [fn |-> "syncProject", args |-> <<target.document.project>>],
                       [fn |-> "deleteAnalysis",
                        args |-> <<target.document.name, target.document.md>>] >>)
        /\ outcome = "Deleted" => Len(ProtocolCalls) = 2

C3_Witness ==
    /\ target = [collection |-> Analyses,
                 document |-> [name |-> "md.rmsd", md |-> 1, project |-> "P1"]]
    /\ outcome = "Deleted"
    /\ ProtocolCalls = << [fn |-> "syncProject", args |-> <<"P1">>],
                          [fn |-> "deleteAnalysis", args |-> <<"md.rmsd", 1>>] >>

\* C4 as stated: for a target of the files collection the protocol calls are
\* syncProject(document.metadata.project) then deleteFile(filename, mdIndex)
\* with both filename and mdIndex taken from document.metadata.
C4_FileProtocolFromMetadata ==
    (Located /\ target.collection = Files) =>
        IsPrefix(ProtocolCalls,
                 << [fn |-> "syncProject", args |-> <<target.document.metadata.project>>],
                    [fn |-> "deleteFile",
                     args |-> <<target.document.metadata.filename,
                                target.document.metadata.md>>] >>)

\* C4 amended: for a target of the files collection the protocol calls are
\* syncProject(document.metadata.project) then deleteFile(document.filename,
\* document.metadata.md): the filename is the document's own field, only the
\* MD index and the project come from the metadata.
C4_FileProtocol ==
    (Located /\ target.collection = Files) =>
        /\ IsPrefix(ProtocolCalls,
                    << [fn |-> "syncProject", args |-> <<target.document.metadata.project>>],
                       [fn |-> "deleteFile",
                        args |-> <<target.document.filename,
                                   target.document.metadata.md>>] >>)
        /\ outcome = "Deleted" => Len(ProtocolCalls) = 2

C4_Witness ==
    /\ Located
    /\ target.collection = Files
    /\ target.document.filename = "traj.xtc"
    /\ target.document.metadata = [filename |-> Undefined, md |-> 2, project |-> "P2"]
    /\ outcome = "Deleted"
    /\ ProtocolCalls = << [fn |-> "syncProject", args |-> <<"P2">>],
                          [fn |-> "deleteFile", args |-> <<"traj.xtc", 2>>] >>

\* C5: for a target of a collection other than analyses and files no
\* syncProject or delete call is ever issued, and the run that reaches the
\* deleting protocol (confirm set, or an affirmative response) ends with the
\* "not yet supported" error carrying the name nameCollectionDocument gave for
\* the target's collection.
C5_UnsupportedKindFails ==
    (Located /\ ~Supported) =>
        /\ ProtocolCalls = <<>>
        /\ (confirm \/ Affirmative) =>
            /\ pc = "done"
            /\ outcome = "Unsupported"
            /\ raised = UnsupportedError(documentName)
            /\ \E i \in DOMAIN calls :
                /\ calls[i].fn = "nameCollectionDocument"
                /\ calls[i].args = <<target.collection>>

C5_Witness ==
    /\ Located
    /\ target.collection = "projects"
    /\ ~confirm
    /\ Affirmative
    /\ outcome = "Unsupported"

\* C6: when confirm is not set and the response is not affirmative the run
\* ends as Aborted with no error raised and without any syncProject or delete
\* call, whatever the target's collection.
C6_DeclineAborts ==
    (~confirm /\ confirmation # NoResponse /\ ~Affirmative) =>
        /\ pc = "done"
        /\ outcome = "Aborted"
        /\ raised = NoError
        /\ ProtocolCalls = <<>>

C6_Witness ==
    /\ ~confirm
    /\ confirmation = ""
    /\ Located
    /\ target.collection = Files
    /\ outcome = "Aborted"

\* C7: when confirm is set userConfirm is never called, and as soon as findId
\* returned a target the run is in the protocol of the target's collection:
\* syncProject was called right after the naming call, or the unsupported
\* error was thrown.
C7_ConfirmFlagSkipsPrompt ==
    confirm =>
        /\ \A i \in DOMAIN calls : calls[i].fn # "userConfirm"
        /\ confirmation = NoResponse
        /\ outcome # "Aborted"
        /\ Located =>
            /\ Len(calls) >= 2
            /\ calls[2].fn = "nameCollectionDocument"
            /\ IF Supported
               THEN Len(calls) >= 3 /\ calls[3].fn = "syncProject"
               ELSE Len(calls) = 2 /\ outcome = "Unsupported"

C7_Witness ==
    /\ confirm
    /\ Located
    /\ outcome = "Deleted"

\* C8: when findId returned null the run is over as NotFound, no error is
\* raised and findId is the only call made.
C8_NotFoundStops ==
    (Len(calls) >= 1 /\ calls[1].status = "returned" /\ target = Null) =>
        /\ pc = "done"
        /\ outcome = "NotFound"
        /\ raised = NoError
        /\ Len(calls) = 1
        /\ calls[1].fn = "findId"

C8_Witness ==
    /\ pc = "done"
    /\ target = Null
    /\ outcome = "NotFound"

\* C9: a response is taken as affirmative exactly when it is "y" or "Y": the
\* run that got a response goes on to the deleting protocol for those two and
\* ends as Aborted for every other response, the empty one included.
C9_AffirmativeExactlyY ==
    confirmation # NoResponse =>
        /\ outcome = "Aborted" <=> confirmation \notin {"y", "Y"}
        /\ confirmation \in {"y", "Y"} =>
              IF Supported THEN ProtocolCalls # <<>> ELSE outcome = "Unsupported"

C9_Witness ==
    /\ confirmation = "Y"
    /\ outcome = "Deleted"

----------------------------------------------------------------------------
(* Properties of idOrAccessionCoerce *)

\* The argument was coerced by idOrAccessionCoerce
CoercedByIdOrAccession ==
    /\ command \in {"load --append", "unpublish"}
    /\ phase \in {"coerced", "failed"}

\* C10: idOrAccessionCoerce returns null for a null or empty argument without
\* trying any coercion; otherwise it calls idCoerce first and returns its
\* result when it succeeds, calls accessionCoerce only when idCoerce failed
\* and returns its result when it succeeds, and throws 'Invalid ID or
\* accession' if and only if both failed.
C10_IdFirstThenAccession ==
    CoercedByIdOrAccession =>
        IF raw = JsNull \/ raw = Str(<<>>)
        THEN /\ phase = "coerced"
             /\ coerced = JsNull
             /\ attempts = <<>>
        ELSE /\ attempts # <<>>
             /\ attempts[1] = "idCoerce"
             /\ idCoerce(raw).ok =>
                    /\ phase = "coerced"
                    /\ coerced = idCoerce(raw).value
                    /\ attempts = <<"idCoerce">>
             /\ ~idCoerce(raw).ok =>
                    /\ attempts = <<"idCoerce", "accessionCoerce">>
                    /\ accessionCoerce(raw).ok =>
                          phase = "coerced" /\ coerced = accessionCoerce(raw).value
             /\ phase = "failed" <=> (~idCoerce(raw).ok /\ ~accessionCoerce(raw).ok)
             /\ phase = "failed" => failure = InvalidIdOrAccession

\* An accession typed in lower case with a blank before it: idCoerce failed,
\* accessionCoerce returned the normalized accession
C10_Witness ==
    /\ command = "unpublish"
    /\ raw = Str(<<" ", "m", "c", "n", "s", "0", "0", "0", "0", "1">>)
    /\ attempts = <<"idCoerce", "accessionCoerce">>
    /\ phase = "coerced"
    /\ coerced = Str(<<"M", "C", "N", "S", "0", "0", "0", "0", "1">>)

\* Two arguments differ only in letter case or in surrounding white space
SameUpToCaseAndBlanks(a, b) ==
    ToUpperCase(Trim(a.chars)) = ToUpperCase(Trim(b.chars))

\* The argument is an accession once trimmed and upper-cased
IsAccession(a) == a.type = "string" /\ accessionFormatTest(ToUpperCase(Trim(a.chars)))

\* C11: idOrAccessionCoerce returns the same normalized accession (trimmed,
\* upper-cased, the prefix and five digits) for any two accession arguments
\* that differ only in letter case or in surrounding white space.
C11_SameNormalizedAccession ==
    (CoercedByIdOrAccession /\ IsAccession(raw)) =>
        /\ phase = "coerced"
        /\ coerced = Str(ToUpperCase(Trim(raw.chars)))
        /\ \A other \in Arguments :
              SameUpToCaseAndBlanks(raw, other) =>
                  /\ idOrAccessionCoerce(other).ok
                  /\ idOrAccessionCoerce(other).value = coerced

----------------------------------------------------------------------------
(* Properties of the cleanup command *)

\* C12 as stated: the cleanup command passes an identifier of either shape,
\* raw id or accession, on to the lookup, and an identifier of neither shape
\* fails the command with an error before findId is called.
C12_EitherShapeReachesLookup ==
    /\ calls # <<>> => phase = "coerced"
    /\ phase \in {"coerced", "failed"} =>
          IF idCoerce(raw).ok \/ IsAccession(raw)
          THEN phase = "coerced"
          ELSE phase = "failed" /\ failure # NoError /\ calls = <<>>

\* C12 amended: the cleanup command coerces its identifier with idCoerce
\* before any database access: an identifier ObjectId accepts is passed on to
\* findId as that ObjectId, and every other identifier, an accession included,
\* fails the command with ObjectId's TypeError before findId is called.
C12_CleanupTakesRawIdOnly ==
    /\ phase = "argv" => calls = <<>> /\ pc = "idle"
    /\ phase \in {"coerced", "failed"} => (phase = "coerced" <=> idCoerce(raw).ok)
    /\ phase = "failed" =>
          /\ failure.type = "TypeError"
          /\ calls = <<>>
          /\ pc = "idle"
    /\ calls # <<>> =>
          /\ phase = "coerced"
          /\ calls[1].fn = "findId"
          /\ calls[1].args = <<ObjectId(raw)>>

\* The accession MCNS00001 is refused
C12_Witness ==
    /\ raw = Str(<<"M", "C", "N", "S", "0", "0", "0", "0", "1">>)
    /\ phase = "failed"
    /\ calls = <<>>

----------------------------------------------------------------------------
(* Further properties of deleteFunction *)

CallsOf(fns) == {i \in DOMAIN calls : calls[i].fn \in fns}

\* C13: syncProject and the typed delete are each called at most once; a
\* rejection of either ends the run at once as Failed with that rejection as
\* its error; and when syncProject returned and the delete rejected the
\* document findId found is still stored.
C13_FailurePropagatesWithoutRetry ==
    /\ Cardinality(CallsOf({"syncProject"})) <= 1
    /\ Cardinality(CallsOf({"deleteAnalysis", "deleteFile"})) <= 1
    /\ \A i \in CallsOf({"syncProject", "deleteAnalysis", "deleteFile"}) :
          calls[i].status = "threw" =>
              /\ i = Len(calls)
              /\ pc = "done"
              /\ outcome = "Failed"
              /\ raised = Rejection(calls[i].fn)
    /\ \A i \in CallsOf({"deleteAnalysis", "deleteFile"}) :
          calls[i].status = "threw" =>
              /\ calls[i - 1].fn = "syncProject"
              /\ calls[i - 1].status = "returned"
              /\ stored = target
              /\ stored # Null

C13_Witness ==
    /\ \E i \in CallsOf({"syncProject"}) : calls[i].status = "returned"
    /\ \E i \in CallsOf({"deleteAnalysis", "deleteFile"}) : calls[i].status = "threw"
    /\ outcome = "Failed"
    /\ stored = target

\* How far the run is: Idle (before and during the lookup), Located (the
\* confirmation is awaited), Confirmed (syncProject is awaited), Synced (the
\* delete is awaited), over
Rank ==
    CASE pc = "start" -> 0
      [] pc = "L14" -> 1
      [] pc = "L21" -> 2
      [] pc \in {"L28", "L37"} -> 3
      [] pc \in {"L32", "L41"} -> 4
      [] OTHER -> 5

TerminalOutcomes == {"NotFound", "Aborted", "Deleted", "Unsupported", "Failed"}

\* C14: when every awaited call settles, every run ends; it has an outcome,
\* one of NotFound, Aborted, Deleted, Unsupported and Failed, exactly when it
\* is over; and every step moves it forward along Idle, Located, Confirmed,
\* Synced, over, so that no state is entered twice and nothing follows the
\* end.
C14_EndsOnceMovingForward ==
    /\ <>(pc = "done")
    /\ [](pc = "done" <=> outcome \in TerminalOutcomes)
    /\ [](outcome \in TerminalOutcomes \cup {"none"})
    /\ [][Rank' > Rank]_vars

C14_Witness ==
    /\ pc = "done"
    /\ outcome = "Deleted"
    /\ ~confirm
    /\ Len(calls) = 5

\* C15: the "not yet supported" error is thrown only once the confirmation
\* is passed, by the confirm argument or by an affirmative response that
\* userConfirm returned; a run whose target is of an unsupported collection and
\* whose response is not affirmative ends as Aborted with no error.
C15_UnsupportedOnlyAfterConfirmation ==
    /\ (outcome = "Unsupported" \/ raised = UnsupportedError(documentName)) =>
          \/ confirm
          \/ /\ Affirmative
             /\ \E i \in CallsOf({"userConfirm"}) : calls[i].status = "returned"
    /\ (Located /\ ~Supported /\ ~confirm) =>
          /\ pc # "start" /\ pc # "L14"
          /\ CallsOf({"userConfirm"}) # {}
          /\ (confirmation # NoResponse /\ ~Affirmative) =>
                /\ outcome = "Aborted"
                /\ raised = NoError

C15_Witness ==
    /\ Located
    /\ target.collection = "topologies"
    /\ ~confirm
    /\ confirmation = "n"
    /\ outcome = "Aborted"
    /\ raised = NoError

\* C16: deleteAnalysis is called only for a target of the analyses
\* collection, deleteFile only for a target of the files collection, and a run
\* makes at most one delete call, so never both.
C16_DeleteMatchesCollection ==
    /\ CallsOf({"deleteAnalysis"}) # {} => (Located /\ target.collection = Analyses)
    /\ CallsOf({"deleteFile"}) # {} => (Located /\ target.collection = Files)
    /\ Cardinality(CallsOf({"deleteAnalysis", "deleteFile"})) <= 1
    /\ outcome = "Deleted" => Cardinality(CallsOf({"deleteAnalysis", "deleteFile"})) = 1

C16_Witness ==
    /\ Located
    /\ target.collection = Files
    /\ CallsOf({"deleteFile"}) # {}
    /\ CallsOf({"deleteAnalysis"}) = {}
    /\ outcome = "Deleted"

\* C17: a run that started has made exactly one findId call, with its id, and
\* that call is the first of its calls; before the start no call was made.
C17_OneLookupFirst ==
    /\ pc = "start" => calls = <<>>
    /\ pc # "start" =>
          /\ calls # <<>>
          /\ calls[1].fn = "findId"
          /\ calls[1].args = <<id>>
          /\ CallsOf({"findId"}) = {1}

C17_Witness ==
    /\ pc = "done"
    /\ outcome = "Deleted"
    /\ calls[1].fn = "findId"
    /\ Len(calls) = 4

====
